---- MODULE Spec2Model ----
(***************************************************************************)
(* Amount extraction of the payment-tracking bot.                          *)
(*                                                                         *)
(* Two extractors exist in the repository:                                 *)
(*   currency_extractor.extract_amounts  (used by bot_handlers: /add,/test)*)
(*   currency_detector.extract_amounts   (used by handlers: plain messages)*)
(* Both run re.findall for a list of patterns over the stripped text and   *)
(* keep the largest parsed value per currency.                             *)
(*                                                                         *)
(* A text is a sequence of characters.  A character is a one-character     *)
(* string; the three non-ASCII code points that occur in the sources are   *)
(* written by name: "U17DB" is the Khmer Riel sign, and "U00E1", "U0178",  *)
(* "U203A" are the three code points that stand in currency_extractor.py   *)
(* where the Riel sign is meant.  Amounts are integers in hundredths       *)
(* (cents): every matched numeral has zero or two fraction digits.         *)
(*                                                                         *)
(* State: text is the string handed to an extractor, callee the module     *)
(* whose extract_amounts was applied to it ("none" before the call), and   *)
(* result the pair it returned.                                            *)
(*                                                                         *)
(* Calls in progress: detector is the module-level CurrencyDetector        *)
(* instance, frames the local variables of each caller's running call of   *)
(* extract_amounts and returned the pairs the finished calls gave back.    *)
(*                                                                         *)
(* The ledger (database.py): payments is the payments table as the         *)
(* sequence of its rows in insertion order, payments_id_seq the SERIAL     *)
(* sequence of the id column, cambodia_date the current calendar date in   *)
(* Asia/Phnom_Penh, advances the number of times the date has moved on,    *)
(* and op the last operation with its arguments and what it returned.      *)
(*                                                                         *)
(* main (main.py): pc is the position of main(), bot_token and             *)
(* database_url tell whether the environment variables are set,            *)
(* db_attempts and db are main's locals, constructions and sleeps count    *)
(* the calls of PaymentDatabase() and time.sleep, and app is the bot that  *)
(* exists.  files is the set of export files in the working directory.     *)
(*                                                                         *)
(* Specifications: SpecExtract applies an extractor to a text, SpecCalls   *)
(* interleaves the steps of concurrent extractor calls, Spec runs the      *)
(* commands and the ledger operations as the date moves on, SpecExport     *)
(* runs /add and the /export handler, and SpecMain runs the program from   *)
(* the entry of main (SpecMainLive adds fairness of main's steps).         *)
(***************************************************************************)
EXTENDS Integers, Sequences, FiniteSets, TLC

VARIABLES text, callee, result,
          detector, frames, returned,
          cambodia_date, payments, payments_id_seq, advances, op,
          pc, bot_token, database_url, db_attempts, db, constructions,
          sleeps, app,
          files

extractVars == <<text, callee, result>>
callVars    == <<detector, frames, returned>>
ledgerVars  == <<cambodia_date, payments, payments_id_seq, advances, op>>
mainVars    == <<pc, bot_token, database_url, db_attempts, db, constructions,
                 sleeps, app>>
vars == <<extractVars, callVars, ledgerVars, mainVars, files>>

\* ------------------------------------------------------------------------
\* Characters
\* ------------------------------------------------------------------------

Digits == {"0", "1", "2", "3", "4", "5", "6", "7", "8", "9"}

\* \d of the re module
IsDigit(c) == c \in Digits

\* \s of the re module, and the characters str.strip() removes
IsSpace(c) == c \in {" ", "\t", "\n"}

DigitVal(c) ==
  CASE c = "0" -> 0 [] c = "1" -> 1 [] c = "2" -> 2 [] c = "3" -> 3
    [] c = "4" -> 4 [] c = "5" -> 5 [] c = "6" -> 6 [] c = "7" -> 7
    [] c = "8" -> 8 [] c = "9" -> 9

\* A variant without re.IGNORECASE: letters match exactly.
Fold_exact(c) == c

\* case folding of re.IGNORECASE: a pattern letter and a text letter match
\* when they are equal after folding.
Fold(c) ==
  CASE c = "A" -> "a" [] c = "B" -> "b" [] c = "C" -> "c" [] c = "D" -> "d"
    [] c = "E" -> "e" [] c = "F" -> "f" [] c = "G" -> "g" [] c = "H" -> "h"
    [] c = "I" -> "i" [] c = "J" -> "j" [] c = "K" -> "k" [] c = "L" -> "l"
    [] c = "M" -> "m" [] c = "N" -> "n" [] c = "O" -> "o" [] c = "P" -> "p"
    [] c = "Q" -> "q" [] c = "R" -> "r" [] c = "S" -> "s" [] c = "T" -> "t"
    [] c = "U" -> "u" [] c = "V" -> "v" [] c = "W" -> "w" [] c = "X" -> "x"
    [] c = "Y" -> "y" [] c = "Z" -> "z"
    [] OTHER -> c

\* the character at position p, "" past either end
At(t, p) == IF p >= 1 /\ p <= Len(t) THEN t[p] ELSE ""

\* ------------------------------------------------------------------------
\* str.strip()
\* ------------------------------------------------------------------------

RECURSIVE LStrip(_)
LStrip(t) == IF t # <<>> /\ IsSpace(Head(t)) THEN LStrip(Tail(t)) ELSE t

RECURSIVE RStrip(_)
RStrip(t) ==
  IF t # <<>> /\ IsSpace(t[Len(t)]) THEN RStrip(SubSeq(t, 1, Len(t) - 1)) ELSE t

Strip(t) == RStrip(LStrip(t))

\* ------------------------------------------------------------------------
\* Regular expressions of the two pattern lists
\*
\* Every pattern of both modules has the shape  PRE ( NUM ) SUF  where PRE
\* and SUF are sequences of literals, \s+, \s* and an optional letter, and
\* NUM is one of four numeral expressions.  A pattern is a record
\*   [pre |-> elements, num |-> numeral kind, suf |-> elements].
\* ------------------------------------------------------------------------

\* re.IGNORECASE: the letters of a pattern are kept case-folded and are
\* matched against the case-folded text (FindAll folds it); the captured
\* group holds digits, ',' and '.' only, which folding leaves alone.
FoldSeq(s) == [i \in 1..Len(s) |-> Fold(s[i])]

Lit(s)  == [k |-> "lit", s |-> FoldSeq(s)]
Opt(s)  == [k |-> "opt", s |-> FoldSeq(s)]
WsPlus  == [k |-> "ws+", s |-> <<>>]
WsStar  == [k |-> "ws*", s |-> <<>>]

\* numeral kinds
GroupedFrac == "G2"   \* \d{1,3}(?:,\d{3})*(?:\.\d{2})?
SimpleFrac  == "S2"   \* \d+(?:\.\d{2})?
Grouped     == "G"    \* \d{1,3}(?:,\d{3})*
Simple      == "S"    \* \d+

\* number of consecutive \d from position p on
RECURSIVE DigitRun(_, _)
DigitRun(t, p) == IF IsDigit(At(t, p)) THEN 1 + DigitRun(t, p + 1) ELSE 0

\* position after the longest run of \s from position p on
RECURSIVE SkipSpace(_, _)
SkipSpace(t, p) == IF IsSpace(At(t, p)) THEN SkipSpace(t, p + 1) ELSE p

\* the (folded) literal s stands at position p of the (folded) text
LitAt(t, p, s) ==
  /\ p + Len(s) - 1 <= Len(t)
  /\ \A i \in 1..Len(s) : t[p + i - 1] = s[i]

\* ,\d{3} stands at position p
GroupAt(t, p) ==
  /\ At(t, p) = ","
  /\ IsDigit(At(t, p + 1)) /\ IsDigit(At(t, p + 2)) /\ IsDigit(At(t, p + 3))

\* number of consecutive ,\d{3} from position p on
RECURSIVE GroupRun(_, _)
GroupRun(t, p) == IF GroupAt(t, p) THEN 1 + GroupRun(t, p + 4) ELSE 0

\* \.\d{2} stands at position p
FracAt(t, p) ==
  At(t, p) = "." /\ IsDigit(At(t, p + 1)) /\ IsDigit(At(t, p + 2))

\* (?:\.\d{2})? from position p: the end positions the matcher tries, in
\* the order it tries them (greedy: with the fraction first)
FracEnds(t, p) == IF FracAt(t, p) THEN <<p + 3, p>> ELSE <<p>>

\* (?:,\d{3})* from position p with g groups taken, then the optional
\* fraction when frac: most groups first
RECURSIVE GroupEnds(_, _, _, _)
GroupEnds(t, p, g, frac) ==
  LET q    == p + 4 * g
      here == IF frac THEN FracEnds(t, q) ELSE <<q>>
  IN  IF g = 0 THEN here ELSE here \o GroupEnds(t, p, g - 1, frac)

\* \d{1,3} with d digits taken, then the groups: most digits first
RECURSIVE GroupedEnds(_, _, _, _)
GroupedEnds(t, p, d, frac) ==
  IF d = 0 THEN <<>>
  ELSE GroupEnds(t, p + d, GroupRun(t, p + d), frac)
         \o GroupedEnds(t, p, d - 1, frac)

\* \d+ with d digits taken, then the optional fraction when frac
RECURSIVE SimpleEnds(_, _, _, _)
SimpleEnds(t, p, d, frac) ==
  IF d = 0 THEN <<>>
  ELSE (IF frac THEN FracEnds(t, p + d) ELSE <<p + d>>)
         \o SimpleEnds(t, p, d - 1, frac)

Min(a, b) == IF a < b THEN a ELSE b

\* The end positions of a numeral of the given kind starting at p, in the
\* order the backtracking matcher tries them.
NumEnds(kind, t, p) ==
  LET run == DigitRun(t, p)
  IN  CASE kind = GroupedFrac -> GroupedEnds(t, p, Min(run, 3), TRUE)
        [] kind = Grouped     -> GroupedEnds(t, p, Min(run, 3), FALSE)
        [] kind = SimpleFrac  -> SimpleEnds(t, p, run, TRUE)
        [] kind = Simple      -> SimpleEnds(t, p, run, FALSE)

\* Literals, \s+, \s* and optional letters from position p: the position
\* after them, 0 when they do not match.  Every \s+ and \s* of the pattern
\* lists is followed by a non-space literal or a digit, and every optional
\* letter by \s or the numeral, so the greedy choice is the only one that
\* can succeed.
RECURSIVE MatchElems(_, _, _)
MatchElems(es, t, p) ==
  IF es = <<>> THEN p
  ELSE LET e == Head(es)
       IN  CASE e.k = "lit" ->
                  IF LitAt(t, p, e.s)
                  THEN MatchElems(Tail(es), t, p + Len(e.s)) ELSE 0
             [] e.k = "opt" ->
                  IF LitAt(t, p, e.s)
                  THEN MatchElems(Tail(es), t, p + Len(e.s))
                  ELSE MatchElems(Tail(es), t, p)
             [] e.k = "ws+" ->
                  IF IsSpace(At(t, p))
                  THEN MatchElems(Tail(es), t, SkipSpace(t, p)) ELSE 0
             [] e.k = "ws*" -> MatchElems(Tail(es), t, SkipSpace(t, p))

NoMatch == [ok |-> FALSE, grp |-> <<>>, end |-> 0]

\* the first numeral end, in the matcher's order, after which SUF matches
RECURSIVE FirstEnd(_, _, _, _)
FirstEnd(suf, t, from, ends) ==
  IF ends = <<>> THEN NoMatch
  ELSE LET e == MatchElems(suf, t, Head(ends))
       IN  IF e # 0
           THEN [ok |-> TRUE, grp |-> SubSeq(t, from, Head(ends) - 1), end |-> e]
           ELSE FirstEnd(suf, t, from, Tail(ends))

\* the match of pattern pat that starts at position s, if any
MatchAt(pat, t, s) ==
  LET p == MatchElems(pat.pre, t, s)
  IN  IF p = 0 THEN NoMatch
      ELSE FirstEnd(pat.suf, t, p, NumEnds(pat.num, t, p))

\* re.findall(pattern, text, re.IGNORECASE): the captured groups of the
\* non-overlapping matches, scanning from the left
RECURSIVE FindAllFrom(_, _, _)
FindAllFrom(pat, t, s) ==
  IF s > Len(t) THEN <<>>
  ELSE LET m == MatchAt(pat, t, s)
       IN  IF m.ok THEN <<m.grp>> \o FindAllFrom(pat, t, m.end)
           ELSE FindAllFrom(pat, t, s + 1)

FindAll(pat, t) == FindAllFrom(pat, FoldSeq(t), 1)

\* ------------------------------------------------------------------------
\* Literals of the patterns
\* ------------------------------------------------------------------------

Dollar   == <<"$">>
RielSign == <<"U17DB">>
\* what currency_extractor.py holds where the Riel sign is meant
RielSignExtractor == <<"U00E1", "U0178", "U203A">>
W_USD      == <<"U", "S", "D">>
W_dollar   == <<"d", "o", "l", "l", "a", "r">>
W_s        == <<"s">>
W_KHR      == <<"K", "H", "R">>
W_riel     == <<"r", "i", "e", "l">>
W_paid     == <<"p", "a", "i", "d">>
W_by       == <<"b", "y">>
W_Received == <<"R", "e", "c", "e", "i", "v", "e", "d">>
W_Transfer == <<"T", "r", "a", "n", "s", "f", "e", "r">>

Pat(pre, num, suf) == [pre |-> pre, num |-> num, suf |-> suf]

\* ------------------------------------------------------------------------
\* float(match.replace(',', ''))
\* ------------------------------------------------------------------------

RemoveCommas(s) == SelectSeq(s, LAMBDA c : c # ",")

RECURSIVE IntVal(_)
IntVal(s) ==
  IF s = <<>> THEN 0
  ELSE 10 * IntVal(SubSeq(s, 1, Len(s) - 1)) + DigitVal(s[Len(s)])

AllDigits(s) == \A i \in 1..Len(s) : IsDigit(s[i])

\* float() of a string of the shapes the patterns capture: digits, or
\* digits '.' and one or two digits.  ok = FALSE stands for ValueError.
\* The value is in hundredths.
Float(s) ==
  LET n   == Len(s)
      dot == IF n >= 3 /\ s[n - 2] = "." THEN n - 2
             ELSE IF n >= 2 /\ s[n - 1] = "." THEN n - 1 ELSE 0
      ip  == IF dot = 0 THEN s ELSE SubSeq(s, 1, dot - 1)
      fp  == IF dot = 0 THEN <<>> ELSE SubSeq(s, dot + 1, n)
  IN  IF ip = <<>> \/ ~AllDigits(ip) \/ ~AllDigits(fp)
      THEN [ok |-> FALSE, v |-> 0]
      ELSE [ok |-> TRUE,
            v  |-> 100 * IntVal(ip)
                     + (IF Len(fp) = 1 THEN 10 * IntVal(fp) ELSE IntVal(fp))]

ParseAmount(match) == Float(RemoveCommas(match))

\* ------------------------------------------------------------------------
\* currency_extractor.py
\* ------------------------------------------------------------------------

usd_patterns == <<
  Pat(<<Lit(Dollar)>>, GroupedFrac, <<>>),
  Pat(<<>>, GroupedFrac, <<Lit(Dollar)>>),
  Pat(<<Lit(Dollar)>>, SimpleFrac, <<>>),
  Pat(<<>>, SimpleFrac, <<Lit(Dollar)>>),
  Pat(<<Lit(Dollar)>>, SimpleFrac, <<WsPlus, Lit(W_paid), WsPlus, Lit(W_by)>>),
  Pat(<<Lit(W_paid), WsPlus, Lit(Dollar)>>, SimpleFrac, <<>>),
  Pat(<<Lit(W_Received), WsPlus, Lit(Dollar)>>, SimpleFrac, <<>>),
  Pat(<<Lit(W_Transfer), WsPlus, Lit(Dollar)>>, SimpleFrac, <<>>),
  Pat(<<>>, SimpleFrac, <<WsPlus, Lit(W_USD)>>),
  Pat(<<>>, SimpleFrac, <<WsPlus, Lit(W_dollar), Opt(W_s)>>),
  Pat(<<Lit(W_USD), WsPlus>>, SimpleFrac, <<>>),
  Pat(<<Lit(W_dollar), Opt(W_s), WsPlus>>, SimpleFrac, <<>>) >>

riel_patterns == <<
  Pat(<<Lit(RielSignExtractor)>>, Grouped, <<>>),
  Pat(<<>>, Grouped, <<Lit(RielSignExtractor)>>),
  Pat(<<Lit(RielSignExtractor)>>, Simple, <<>>),
  Pat(<<>>, Simple, <<Lit(RielSignExtractor)>>),
  Pat(<<>>, Grouped, <<WsPlus, Lit(W_riel)>>),
  Pat(<<>>, Grouped, <<WsPlus, Lit(W_KHR)>>),
  Pat(<<Lit(W_riel), WsPlus>>, Grouped, <<>>),
  Pat(<<Lit(W_KHR), WsPlus>>, Grouped, <<>>),
  Pat(<<Lit(W_Received), WsPlus>>, Grouped, <<WsPlus, Lit(W_KHR)>>) >>

\* the outcome of a call: a pair of amounts, or an exception that escaped
Return(usd, riel) == [raised |-> FALSE, usd |-> usd, riel |-> riel]
Raised            == [raised |-> TRUE, usd |-> 0, riel |-> 0]

\* Variants of the comparison: one that adds the amounts up, one that
\* keeps the last amount seen.
TakeLargest_sum(current, amount)  == current + amount
TakeLargest_last(current, amount) == amount

\* if amount > usd_amount: usd_amount = amount
TakeLargest(current, amount) == IF amount > current THEN amount ELSE current

\* for match in matches: try: amount = float(...) ... except ValueError: continue
RECURSIVE ScanMatches(_, _)
ScanMatches(current, matches) ==
  IF matches = <<>> THEN current
  ELSE LET f == ParseAmount(Head(matches))
       IN  ScanMatches(IF f.ok THEN TakeLargest(current, f.v) ELSE current,
                       Tail(matches))

\* for pattern in patterns: matches = re.findall(pattern, text, re.IGNORECASE)
RECURSIVE ScanPatterns(_, _, _)
ScanPatterns(current, patterns, t) ==
  IF patterns = <<>> THEN current
  ELSE ScanPatterns(ScanMatches(current, FindAll(Head(patterns), t)),
                    Tail(patterns), t)

\* currency_extractor.extract_amounts
extract_amounts(txt) ==
  LET t == Strip(txt)
  IN  Return(ScanPatterns(0, usd_patterns, t), ScanPatterns(0, riel_patterns, t))

\* ------------------------------------------------------------------------
\* currency_detector.py
\* ------------------------------------------------------------------------

detector_usd_patterns == <<
  Pat(<<Lit(Dollar)>>, GroupedFrac, <<>>),
  Pat(<<>>, GroupedFrac, <<Lit(Dollar)>>),
  Pat(<<Lit(Dollar)>>, SimpleFrac, <<>>),
  Pat(<<>>, SimpleFrac, <<Lit(Dollar)>>),
  Pat(<<>>, GroupedFrac, <<WsStar, Lit(W_USD)>>),
  Pat(<<>>, GroupedFrac, <<WsStar, Lit(W_dollar), Opt(W_s)>>),
  Pat(<<Lit(W_USD), WsStar>>, GroupedFrac, <<>>),
  Pat(<<Lit(W_dollar), Opt(W_s), WsStar>>, GroupedFrac, <<>>),
  Pat(<<Lit(W_paid), WsStar, Lit(Dollar)>>, GroupedFrac, <<>>),
  Pat(<<Lit(W_Received), WsStar, Lit(Dollar)>>, GroupedFrac, <<>>),
  Pat(<<Lit(W_Transfer), WsStar, Lit(Dollar)>>, GroupedFrac, <<>>),
  Pat(<<Lit(Dollar)>>, GroupedFrac, <<WsStar, Lit(W_paid)>>) >>

detector_riel_patterns == <<
  Pat(<<Lit(RielSign)>>, Grouped, <<>>),
  Pat(<<>>, Grouped, <<Lit(RielSign)>>),
  Pat(<<Lit(RielSign)>>, Simple, <<>>),
  Pat(<<>>, Simple, <<Lit(RielSign)>>),
  Pat(<<>>, Grouped, <<WsStar, Lit(W_riel)>>),
  Pat(<<>>, Grouped, <<WsStar, Lit(W_KHR)>>),
  Pat(<<Lit(W_riel), WsStar>>, Grouped, <<>>),
  Pat(<<Lit(W_KHR), WsStar>>, Grouped, <<>>),
  Pat(<<Lit(W_paid), WsStar, Lit(RielSign)>>, Grouped, <<>>),
  Pat(<<Lit(W_Received), WsStar, Lit(RielSign)>>, Grouped, <<>>),
  Pat(<<Lit(RielSign)>>, Grouped, <<WsStar, Lit(W_paid)>>) >>

\* if amount > 0: amounts.append(amount)
KeepPositive(amounts, amount) ==
  IF amount > 0 THEN Append(amounts, amount) ELSE amounts

RECURSIVE CollectMatches(_, _)
CollectMatches(amounts, matches) ==
  IF matches = <<>> THEN amounts
  ELSE LET f == ParseAmount(Head(matches))
       IN  CollectMatches(IF f.ok THEN KeepPositive(amounts, f.v) ELSE amounts,
                          Tail(matches))

RECURSIVE CollectPatterns(_, _, _)
CollectPatterns(amounts, patterns, t) ==
  IF patterns = <<>> THEN amounts
  ELSE CollectPatterns(CollectMatches(amounts, FindAll(Head(patterns), t)),
                       Tail(patterns), t)

\* CurrencyDetector._extract_usd and _extract_riel: the list of amounts
_extract_usd(t)  == CollectPatterns(<<>>, detector_usd_patterns, t)
_extract_riel(t) == CollectPatterns(<<>>, detector_riel_patterns, t)

\* max() of a list: ok = FALSE stands for the ValueError of an empty list
RECURSIVE SeqMax(_)
SeqMax(amounts) ==
  IF Len(amounts) = 1 THEN Head(amounts)
  ELSE LET m == SeqMax(Tail(amounts))
       IN  IF Head(amounts) >= m THEN Head(amounts) ELSE m

PyMax(amounts) ==
  IF amounts = <<>> THEN [ok |-> FALSE, v |-> 0]
  ELSE [ok |-> TRUE, v |-> SeqMax(amounts)]

\* A variant without the emptiness guards and without the try/except:
\* max() of an empty list escapes.
detector_extract_amounts_unprotected(txt) ==
  LET t == Strip(txt)
      u == PyMax(_extract_usd(t))
      r == PyMax(_extract_riel(t))
  IN  IF u.ok /\ r.ok THEN Return(u.v, r.v) ELSE Raised

\* CurrencyDetector.extract_amounts.  The body runs in try/except
\* Exception: when a step raises, the amounts assigned so far are returned.
detector_extract_amounts(txt) ==
  IF txt = <<>> THEN Return(0, 0)
  ELSE LET t            == Strip(txt)
           usd_amounts  == _extract_usd(t)
           riel_amounts == _extract_riel(t)
           u == IF usd_amounts # <<>> THEN PyMax(usd_amounts)
                ELSE [ok |-> TRUE, v |-> 0]
           r == IF riel_amounts # <<>> THEN PyMax(riel_amounts)
                ELSE [ok |-> TRUE, v |-> 0]
       IN  IF ~u.ok THEN Return(0, 0)
           ELSE IF ~r.ok THEN Return(u.v, 0)
           ELSE Return(u.v, r.v)

\* ------------------------------------------------------------------------
\* The texts the extractors are applied to
\* ------------------------------------------------------------------------

\* longest run of digits in a generated integer numeral
MaxDigits == 4

Sp == <<" ">>
W_and == <<"a", "n", "d">>
W_SCB == <<"S", "C", "B">>

\* digit strings of one to MaxDigits digits, leading zeros included
IntNumerals == UNION {[1..n -> {"0", "5"}] : n \in 1..MaxDigits}

\* numerals with one and with two fraction digits
FracNumerals ==
  {i \o f : i \in {<<"0">>, <<"5">>, <<"5", "0">>},
            f \in {<<".", "5">>, <<".", "5", "0">>, <<".", "0", "0">>}}

\* correctly grouped numerals: 1-3 digits, groups of ',' and 3 digits,
\* with and without two fraction digits
GroupedNumerals ==
  {h \o g \o f :
     h \in {<<"5">>, <<"5", "0">>, <<"5", "0", "0">>},
     g \in {<<",", "0", "0", "0">>, <<",", "5", "0", "0">>},
     f \in {<<>>, <<".", "5", "0">>}}
  \cup
  {<<"5">> \o g \o <<",", "0", "0", "0">> \o f :
     g \in {<<",", "0", "0", "0">>, <<",", "5", "0", "0">>},
     f \in {<<>>, <<".", "5", "0">>}}

Numerals == IntNumerals \cup FracNumerals \cup GroupedNumerals

\* A form is what stands before and after the numeral.
Form(pre, suf) == [pre |-> pre, suf |-> suf]
Phrase(f, n) == f.pre \o n \o f.suf

F_SymPrefix   == Form(Dollar, <<>>)                         \* $n
F_SymSuffix   == Form(<<>>, Dollar)                         \* n$
F_USD         == Form(<<>>, Sp \o W_USD)                    \* n USD
F_dollars     == Form(<<>>, Sp \o W_dollar \o W_s)          \* n dollars
F_USDPrefix   == Form(W_USD \o Sp, <<>>)                    \* USD n
F_RielPrefix  == Form(RielSign, <<>>)                       \* (Riel sign) n
F_RielSuffix  == Form(<<>>, RielSign)                       \* n (Riel sign)
F_riel        == Form(<<>>, Sp \o W_riel)                   \* n riel
F_KHR         == Form(<<>>, Sp \o W_KHR)                    \* n KHR
F_rielPrefix  == Form(W_riel \o Sp, <<>>)                   \* riel n
F_KHRPrefix   == Form(W_KHR \o Sp, <<>>)                    \* KHR n
F_PaidBy      == Form(Dollar, Sp \o W_paid \o Sp \o W_by \o Sp \o W_SCB)
F_Paid        == Form(W_paid \o Sp \o Dollar, <<>>)         \* paid $n
F_Received    == Form(W_Received \o Sp \o Dollar, <<>>)     \* Received $n
F_ReceivedKHR == Form(W_Received \o Sp, Sp \o W_KHR)        \* Received n KHR
F_Transfer    == Form(W_Transfer \o Sp \o Dollar, <<>>)     \* Transfer $n
F_Bare        == Form(<<>>, <<>>)                           \* n
F_Extractor   == Form(RielSignExtractor, <<>>)

UsdGenericForms == {F_SymPrefix, F_SymSuffix, F_USD, F_dollars, F_USDPrefix}
RielSymbolForms == {F_RielPrefix, F_RielSuffix}
RielWordForms   == {F_riel, F_KHR, F_rielPrefix, F_KHRPrefix}
UsdTransactionForms == {F_PaidBy, F_Paid, F_Received, F_Transfer}
Forms ==
  UsdGenericForms \cup RielSymbolForms \cup RielWordForms
    \cup UsdTransactionForms \cup {F_ReceivedKHR, F_Bare, F_Extractor}

\* texts with one amount
OnePhrase == {Phrase(f, n) : f \in Forms, n \in Numerals}

\* texts with two amounts
SecondForms == {F_SymPrefix, F_USD, F_RielPrefix, F_KHR, F_PaidBy}
FirstNumerals  == {<<"0">>, <<"5", "0">>}
SecondNumerals == {<<"0">>, <<"5">>, <<"5", "0", "0">>}
TwoPhrase(f, n, g, m) == Phrase(f, n) \o Sp \o W_and \o Sp \o Phrase(g, m)
TwoPhrases ==
  {TwoPhrase(f, n, g, m) :
     f \in Forms, n \in FirstNumerals, g \in SecondForms, m \in SecondNumerals}

\* texts with one numeral that stands between a marker of one currency and
\* a marker of the other
RielPrefixes == {RielSign, W_KHR \o Sp, W_riel \o Sp}
RielSuffixes == {RielSign, Sp \o W_KHR, Sp \o W_riel}
UsdPrefixes  == {Dollar, W_USD \o Sp}
UsdSuffixes  == {Dollar, Sp \o W_USD, Sp \o W_dollar \o W_s}
DoubleForms ==
  {Form(p, q) : p \in RielPrefixes, q \in UsdSuffixes}
    \cup {Form(p, q) : p \in UsdPrefixes, q \in RielSuffixes}
DoubleNumerals == {<<"5">>, <<"1", "0", "0">>}
DoubleMarked == {Phrase(f, n) : f \in DoubleForms, n \in DoubleNumerals}

\* texts without a digit
NoDigits ==
  {<<>>, Sp, Sp \o Sp, W_USD, W_riel, W_dollar \o W_s, Dollar, RielSign,
   W_paid \o Sp \o W_by, W_KHR \o Sp \o W_and \o Sp \o W_USD}

\* the examples of the documentation
Ex_PaidByBalance ==
  <<"$", "2", "7", "2", ".", "5", "0", " ", "p", "a", "i", "d", " ", "b", "y", " ", "S", "C", "B", ",", " ", "b", "a", "l", "a", "n", "c", "e", " ", "$", "1", "0", "0", "0", ".", "0", "0">>
Ex_50and100 ==
  <<"$", "5", "0", " ", "a", "n", "d", " ", "$", "1", "0", "0">>
Ex_100 ==
  <<"$", "1", "0", "0">>
Ex_Riel25000 ==
  <<"U17DB", "2", "5", ",", "0", "0", "0">>
Ex_50Riel10000 ==
  <<"$", "5", "0", " ", "U17DB", "1", "0", "0", "0", "0">>
Ex_1200_25 ==
  <<"$", "1", ",", "2", "0", "0", ".", "2", "5">>
Ex_1200USD ==
  <<"1", ",", "2", "0", "0", " ", "U", "S", "D">>
Ex_10_5 ==
  <<"$", "1", "0", ".", "5">>
Ex_10_50 ==
  <<"$", "1", "0", ".", "5", "0">>
Ex_25000riel ==
  <<"2", "5", "0", "0", "0", " ", "r", "i", "e", "l">>
Ex_25000KHR ==
  <<"2", "5", "0", "0", "0", " ", "K", "H", "R">>
Ex_100USD ==
  <<"1", "0", "0", " ", "U", "S", "D">>
Ex_Padded ==
  <<" ", " ", "$", "5", "0", " ", "\t">>
Ex_Received ==
  <<"R", "e", "c", "e", "i", "v", "e", "d", " ", "1", "1", "0", ",", "0", "0", "0", " ", "K", "H", "R">>
Ex_12345USD ==
  <<"1", "2", "3", "4", "5", " ", "U", "S", "D">>
Ex_Riel100Dollar ==
  <<"U17DB", "1", "0", "0", "$">>
Ex_KHR100USD ==
  <<"K", "H", "R", " ", "1", "0", "0", " ", "U", "S", "D">>
Ex_100usd ==
  <<"1", "0", "0", " ", "u", "s", "d">>
Ex_100Usd ==
  <<"1", "0", "0", " ", "U", "s", "d">>
Examples ==
  {Ex_PaidByBalance, Ex_50and100, Ex_100, Ex_Riel25000, Ex_50Riel10000,
   Ex_1200_25, Ex_1200USD, Ex_10_5, Ex_10_50, Ex_25000riel, Ex_25000KHR,
   Ex_100USD, Ex_Padded, Ex_Received, Ex_12345USD, Ex_100usd, Ex_100Usd}

Texts ==
  OnePhrase \cup TwoPhrases \cup DoubleMarked \cup NoDigits \cup Examples

\* ------------------------------------------------------------------------
\* Calendar dates (datetime.date, the DATE column)
\* ------------------------------------------------------------------------

Date(y, m, d) == [year |-> y, month |-> m, day |-> d]

IsLeap(y) == (y % 4 = 0 /\ y % 100 # 0) \/ y % 400 = 0

DaysInMonth(y, m) ==
  IF m = 2 THEN (IF IsLeap(y) THEN 29 ELSE 28)
  ELSE IF m \in {4, 6, 9, 11} THEN 30 ELSE 31

\* a <= b, as dates are compared
DateLE(a, b) ==
  \/ a.year < b.year
  \/ a.year = b.year /\ a.month < b.month
  \/ a.year = b.year /\ a.month = b.month /\ a.day <= b.day

NextDay(d) ==
  IF d.day < DaysInMonth(d.year, d.month) THEN Date(d.year, d.month, d.day + 1)
  ELSE IF d.month < 12 THEN Date(d.year, d.month + 1, 1)
  ELSE Date(d.year + 1, 1, 1)

PrevDay(d) ==
  IF d.day > 1 THEN Date(d.year, d.month, d.day - 1)
  ELSE IF d.month > 1
       THEN Date(d.year, d.month - 1, DaysInMonth(d.year, d.month - 1))
  ELSE Date(d.year - 1, 12, 31)

\* d + timedelta(days=n) and d - timedelta(days=n)
RECURSIVE PlusDays(_, _)
PlusDays(d, n) == IF n = 0 THEN d ELSE PlusDays(NextDay(d), n - 1)

RECURSIVE MinusDays(_, _)
MinusDays(d, n) == IF n = 0 THEN d ELSE MinusDays(PrevDay(d), n - 1)

\* A variant of the week window that reaches back six days.
week_start_six(cambodia_date_) == MinusDays(cambodia_date_, 6)

\* week_start = cambodia_date - pd.Timedelta(days=7)
week_start(cambodia_date_) == MinusDays(cambodia_date_, 7)

\* A variant of the month window that starts at the current date.
month_start_same_day(cambodia_date_) == cambodia_date_

\* month_start = cambodia_date.replace(day=1)
month_start(cambodia_date_) == [cambodia_date_ EXCEPT !.day = 1]

\* year_start = cambodia_date.replace(month=1, day=1)
year_start(cambodia_date_) == [cambodia_date_ EXCEPT !.month = 1, !.day = 1]

\* None, where a date is optional
NoDate == Date(0, 0, 0)

\* ------------------------------------------------------------------------
\* database.py: the payments table and the operations on it.  A table is
\* the sequence of its rows in insertion order; amounts are in hundredths.
\* ------------------------------------------------------------------------

Row(id, user_id, chat_id, usd_amount, riel_amount, payment_date) ==
  [id |-> id, user_id |-> user_id, chat_id |-> chat_id,
   usd_amount |-> usd_amount, riel_amount |-> riel_amount,
   payment_date |-> payment_date, created_at |-> id]

\* A variant that drops the table and creates it anew.
setup_database_recreate(table) == <<>>

\* PaymentDatabase.setup_database on an existing table: CREATE TABLE IF NOT
\* EXISTS and CREATE INDEX IF NOT EXISTS leave the rows alone.
setup_database(table) == table

\* get_database(): a new PaymentDatabase, whose __init__ connects and runs
\* setup_database
get_database(table) == setup_database(table)

\* INSERT INTO payments ... payment_date = get_cambodia_date() RETURNING id
PaymentDatabase_add_payment(table, id, user_id, chat_id, usd_amount, riel_amount, today) ==
  Append(table, Row(id, user_id, chat_id, usd_amount, riel_amount, today))

\* SUM(column) over rows, COALESCE(..., 0)
RECURSIVE SumUsd(_)
SumUsd(rows) ==
  IF rows = <<>> THEN 0 ELSE Head(rows).usd_amount + SumUsd(Tail(rows))

RECURSIVE SumRiel(_)
SumRiel(rows) ==
  IF rows = <<>> THEN 0 ELSE Head(rows).riel_amount + SumRiel(Tail(rows))

Totals(usd_total, riel_total) == [usd |-> usd_total, riel |-> riel_total]

Periods == {"today", "week", "month", "year", "all"}

\* PaymentDatabase.get_totals.  For a period that is none of 'today',
\* 'week', 'month', 'year' no query is executed, cursor.fetchone() raises,
\* and the except branch returns 0.0, 0.0.
PaymentDatabase_get_totals(table, today, chat_id, period) ==
  LET since(start) ==
        SelectSeq(table, LAMBDA r : r.chat_id = chat_id
                                      /\ DateLE(start, r.payment_date))
      rows ==
        CASE period = "today" ->
               SelectSeq(table, LAMBDA r : r.chat_id = chat_id
                                             /\ r.payment_date = today)
          [] period = "week"  -> since(week_start(today))
          [] period = "month" -> since(month_start(today))
          [] period = "year"  -> since(year_start(today))
          [] OTHER -> <<>>
  IN  IF period \in {"today", "week", "month", "year"}
      THEN Totals(SumUsd(rows), SumRiel(rows))
      ELSE Totals(0, 0)

\* ORDER BY payment_date DESC, created_at DESC: rows are inserted with
\* non-decreasing date and time, so the order is the reverse of insertion
Reverse(s) == [i \in 1..Len(s) |-> s[Len(s) + 1 - i]]

\* the columns of the export query
ExportRow(r) ==
  [payment_date |-> r.payment_date, user_id |-> r.user_id,
   usd_amount |-> r.usd_amount, riel_amount |-> r.riel_amount,
   created_at |-> r.created_at]

ExportRows(rows) == [i \in 1..Len(rows) |-> ExportRow(rows[i])]

\* A variant of the export query without the chat_id condition.
get_payments_for_export_any_chat(table, chat_id, start_date, end_date) ==
  ExportRows(Reverse(table))

\* A variant of the export query whose range ends before end_date.
get_payments_for_export_before_end(table, chat_id, start_date, end_date) ==
  ExportRows(Reverse(
    SelectSeq(table, LAMBDA r : /\ r.chat_id = chat_id
                                /\ (start_date # NoDate =>
                                      DateLE(start_date, r.payment_date))
                                /\ r.payment_date # end_date)))

\* PaymentDatabase.get_payments_for_export
get_payments_for_export(table, chat_id, start_date, end_date) ==
  IF start_date # NoDate /\ end_date # NoDate
  THEN ExportRows(Reverse(
         SelectSeq(table, LAMBDA r : /\ r.chat_id = chat_id
                                     /\ DateLE(start_date, r.payment_date)
                                     /\ DateLE(r.payment_date, end_date))))
  ELSE ExportRows(Reverse(SelectSeq(table, LAMBDA r : r.chat_id = chat_id)))

None == [file |-> FALSE]

\* PaymentDatabase.export_to_excel: None, or the written file with its
\* 'Payments' sheet and its 'Summary' sheet
export_to_excel(table, today, chat_id, period) ==
  LET end_date   == today
      start_date == CASE period = "week"  -> week_start(today)
                      [] period = "month" -> month_start(today)
                      [] period = "year"  -> year_start(today)
                      [] OTHER -> NoDate
      payments_  == get_payments_for_export(table, chat_id, start_date, end_date)
  IN  IF payments_ = <<>> THEN None
      ELSE [file |-> TRUE, period |-> period,
            Payments |-> payments_,
            Summary |-> [total_usd |-> SumUsd(payments_),
                         total_khr |-> SumRiel(payments_),
                         number_of_payments |-> Len(payments_)]]

\* A variant of the statistics whose first query has no chat_id condition.
get_stats_any_chat(table, today, chat_id) ==
  LET today_ == SelectSeq(table, LAMBDA r : r.chat_id = chat_id
                                             /\ r.payment_date = today)
  IN  [total_payments |-> Len(table), total_usd |-> SumUsd(table),
       total_riel |-> SumRiel(table), today_payments |-> Len(today_),
       today_usd |-> SumUsd(today_), today_riel |-> SumRiel(today_)]

\* PaymentDatabase.get_stats
get_stats(table, today, chat_id) ==
  LET all_   == SelectSeq(table, LAMBDA r : r.chat_id = chat_id)
      today_ == SelectSeq(table, LAMBDA r : r.chat_id = chat_id
                                             /\ r.payment_date = today)
  IN  [total_payments |-> Len(all_), total_usd |-> SumUsd(all_),
       total_riel |-> SumRiel(all_), today_payments |-> Len(today_),
       today_usd |-> SumUsd(today_), today_riel |-> SumRiel(today_)]

\* ------------------------------------------------------------------------
\* The ledger state machine.  cambodia_date is the current date in
\* Asia/Phnom_Penh (get_cambodia_date), payments the table, payments_id_seq
\* the next value of the SERIAL id, advances the number of times the date
\* has moved on, and op the last operation with its arguments and outcome.
\* ------------------------------------------------------------------------

\* the updates a command arrives with: effective_user.id, effective_chat.id
Updates ==
  {[user_id |-> 101, chat_id |-> 1001],
   [user_id |-> 102, chat_id |-> 1002]}
Chats == {u.chat_id : u \in Updates}

\* context.args of /add
T_lunch == <<"l", "u", "n", "c", "h">>
ArgLists ==
  {<<>>,
   <<T_lunch>>,
   <<<<"4">>, W_KHR>>,
   <<<<"$", "5">>, <<"4">>, W_KHR>>}

\* A variant that hands only the first argument on.
JoinArgs_first(args) == Head(args)

\* " ".join(context.args)
RECURSIVE JoinArgs(_)
JoinArgs(args) ==
  IF Len(args) = 1 THEN Head(args)
  ELSE Head(args) \o <<" ">> \o JoinArgs(Tail(args))

\* currency_extractor.extract_amounts on each text /add can hand to it,
\* evaluated once
extract_amounts_of ==
  [t \in {JoinArgs(args) : args \in ArgLists \ {<<>>}} |-> extract_amounts(t)]

\* rows the table may hold, and times the date may move on
MaxPayments == 2
MaxAdvances == 1

FirstDate == Date(2024, 12, 28)
DayJumps == {1, 7, 8}

NoOp == [name |-> "none"]

LedgerIdle ==
  /\ cambodia_date = FirstDate
  /\ payments = <<>>
  /\ payments_id_seq = 1
  /\ advances = 0
  /\ op = NoOp

\* bot_handlers.add_payment_command
AddPaymentCommand ==
  \E u \in Updates : \E args \in ArgLists :
    LET call == [name |-> "add_payment_command", user_id |-> u.user_id,
                 chat_id |-> u.chat_id, args |-> args]
    IN
    IF args = <<>>
    THEN /\ op' = call @@ [out |-> "usage"]
         /\ UNCHANGED <<cambodia_date, payments, payments_id_seq, advances>>
    ELSE
      LET payment_text == JoinArgs(args)
          amounts      == extract_amounts_of[payment_text]
      IN
      IF ~(amounts.usd > 0 \/ amounts.riel > 0)
      THEN /\ op' = call @@ [out |-> "no amounts"]
           /\ UNCHANGED <<cambodia_date, payments, payments_id_seq, advances>>
      ELSE
        \/ \* add_payment raises: 'Error adding payment'
           /\ op' = call @@ [out |-> "error"]
           /\ payments' = get_database(payments)
           /\ UNCHANGED <<cambodia_date, payments_id_seq, advances>>
        \/ \* add_payment reads the date for the INSERT, get_totals reads
           \* it again afterwards: midnight may have passed in between
           /\ Len(payments) < MaxPayments
           /\ \E midnight \in {0, 1} :
                /\ midnight = 1 => advances < MaxAdvances
                /\ advances' = advances + midnight
                /\ cambodia_date' = PlusDays(cambodia_date, midnight)
                /\ payments' =
                     get_database(
                       PaymentDatabase_add_payment(
                         get_database(payments), payments_id_seq, u.user_id,
                         u.chat_id, amounts.usd, amounts.riel, cambodia_date))
                /\ payments_id_seq' = payments_id_seq + 1
                /\ op' = call @@
                     [out |-> "added", payment_id |-> payments_id_seq,
                      usd_amount |-> amounts.usd,
                      riel_amount |-> amounts.riel,
                      midnight |-> midnight,
                      current |-> PaymentDatabase_get_totals(
                                    payments', cambodia_date', u.chat_id,
                                    "today")]

\* currency_extractor.get_totals
GetTotals ==
  \E chat_id \in Chats : \E period \in Periods :
    /\ payments' = get_database(payments)
    /\ op' = [name |-> "get_totals", chat_id |-> chat_id, period |-> period,
              out |-> PaymentDatabase_get_totals(
                        payments', cambodia_date, chat_id, period)]
    /\ UNCHANGED <<cambodia_date, payments_id_seq, advances>>

\* currency_extractor.export_payments -> PaymentDatabase.export_to_excel
ExportPayments ==
  \E chat_id \in Chats : \E period \in {"week", "month", "year", "all"} :
    /\ payments' = get_database(payments)
    /\ op' = [name |-> "export_to_excel", chat_id |-> chat_id,
              period |-> period,
              out |-> export_to_excel(payments', cambodia_date, chat_id, period)]
    /\ UNCHANGED <<cambodia_date, payments_id_seq, advances>>

\* PaymentDatabase.get_stats
GetStats ==
  \E chat_id \in Chats :
    /\ payments' = get_database(payments)
    /\ op' = [name |-> "get_stats", chat_id |-> chat_id,
              out |-> get_stats(payments', cambodia_date, chat_id)]
    /\ UNCHANGED <<cambodia_date, payments_id_seq, advances>>

\* currency_extractor.reset_totals: logs, nothing else
ResetTotals ==
  /\ op' = [name |-> "reset_totals"]
  /\ UNCHANGED <<cambodia_date, payments, payments_id_seq, advances>>

\* PaymentDatabase(): connect and setup_database
Reconnect ==
  /\ payments' = setup_database(payments)
  /\ op' = [name |-> "setup_database"]
  /\ UNCHANGED <<cambodia_date, payments_id_seq, advances>>

\* bot_handlers.test_detection: what /test replies for its arguments
test_detection(args) ==
  IF args = <<>> THEN [out |-> "usage"]
  ELSE LET test_message == JoinArgs(args)
           amounts      == extract_amounts_of[test_message]
       IN  [out |-> IF amounts.usd > 0 \/ amounts.riel > 0
                    THEN "successful" ELSE "no amounts",
            usd_amount |-> amounts.usd, riel_amount |-> amounts.riel]

\* bot_handlers.test_detection: no call of the database
TestDetection ==
  \E args \in ArgLists :
    /\ op' = [name |-> "test_detection", args |-> args] @@ test_detection(args)
    /\ UNCHANGED <<cambodia_date, payments, payments_id_seq, advances>>

\* context.args of /export, in lower case; the first one names the period
\* when it is one of week, month, year, all, and the period is month
\* otherwise
ExportArgLists == {<<>>, <<"week">>, <<"all">>, <<"daily">>}

export_period(args) ==
  IF args # <<>> /\ Head(args) \in {"week", "month", "year", "all"}
  THEN Head(args) ELSE "month"

\* files the export handler may leave behind
MaxFiles == 1

\* f"payments_{safe_title}_{period}_{timestamp}.xlsx": the time stamp tells
\* the file from every file that is there already
Filename(chat_id, period, on_disk) ==
  [chat_id |-> chat_id, period |-> period, timestamp |-> Cardinality(on_disk)]

\* bot_handlers.export_excel: export_payments writes the file, the handler
\* sends it and removes it; when sending raises, the except branch replies
\* and os.remove is not reached
ExportExcel ==
  \E u \in Updates : \E args \in ExportArgLists :
    LET period   == export_period(args)
        exported == export_to_excel(get_database(payments), cambodia_date,
                                    u.chat_id, period)
        filename == Filename(u.chat_id, period, files)
        call     == [name |-> "export_excel", chat_id |-> u.chat_id,
                     args |-> args, period |-> period]
    IN
    /\ payments' = get_database(payments)
    /\ IF exported = None
       THEN /\ op' = call @@ [out |-> "no data", filename |-> None]
            /\ UNCHANGED files
       ELSE \/ \* reply_document returns, os.remove(filename)
               /\ op' = call @@ [out |-> "sent", filename |-> filename]
               /\ files' = (files \cup {filename}) \ {filename}
            \/ \* open or reply_document raises
               /\ Cardinality(files) < MaxFiles
               /\ op' = call @@ [out |-> "error", filename |-> filename]
               /\ files' = files \cup {filename}
    /\ UNCHANGED <<cambodia_date, payments_id_seq, advances>>

\* midnight passes in Asia/Phnom_Penh: one, seven or eight days go by
\* before the next operation
DatePasses ==
  \E n \in DayJumps :
    /\ advances < MaxAdvances
    /\ advances' = advances + 1
    /\ cambodia_date' = PlusDays(cambodia_date, n)
    /\ op' = [name |-> "date passes"]
    /\ UNCHANGED <<payments, payments_id_seq>>


\* ------------------------------------------------------------------------
\* main.py: main().  pc is the position of main, bot_token and
\* database_url tell whether the environment variables are set,
\* db_attempts and db are the locals of that name (db is "None" or
\* "connected"), constructions counts the calls of PaymentDatabase(),
\* sleeps the calls of time.sleep(2), and app tells which bot there is:
\* "none", "handlers" (built, setup_handlers done), "polling" (the command
\* handlers are served) or "emergency" (the minimal handler is served).
\* ------------------------------------------------------------------------

max_attempts == 3

\* A variant that never gives up inside the except branch.
gives_up_never(db_attempts_) == FALSE

\* if db_attempts >= max_attempts: ... raise
gives_up(db_attempts_) == db_attempts_ >= max_attempts

\* main has passed the startup with the first attempt and serves commands
MainPolling ==
  /\ pc = "polling"
  /\ bot_token = TRUE
  /\ database_url = TRUE
  /\ db_attempts = 0
  /\ db = "connected"
  /\ constructions = 1
  /\ sleeps = 0
  /\ app = "polling"

\* lines 25-48: the environment is read; without BOT_TOKEN or DATABASE_URL
\* main returns
MainCheckEnvironment ==
  /\ pc = "start"
  /\ pc' = IF bot_token /\ database_url THEN "construct" ELSE "returned"
  /\ UNCHANGED <<bot_token, database_url, db_attempts, db, constructions,
                 sleeps, app>>

\* lines 50-61: one pass of the loop body up to the break, the raise or
\* the sleep
MainConnect ==
  /\ pc = "construct"
  /\ db_attempts < max_attempts
  /\ constructions' = constructions + 1
  /\ \/ \* PaymentDatabase() returns: break
        /\ db' = "connected"
        /\ pc' = "build"
        /\ UNCHANGED db_attempts
     \/ \* PaymentDatabase() raises
        /\ db_attempts' = db_attempts + 1
        /\ pc' = IF gives_up(db_attempts') THEN "except" ELSE "sleep"
        /\ UNCHANGED db
  /\ UNCHANGED <<bot_token, database_url, sleeps, app>>

\* lines 62-63 and the loop test of line 50
MainSleep ==
  /\ pc = "sleep"
  /\ sleeps' = sleeps + 1
  /\ pc' = IF db_attempts < max_attempts THEN "construct" ELSE "build"
  /\ UNCHANGED <<bot_token, database_url, db_attempts, db, constructions,
                 app>>

\* lines 66-71: Application.builder().token(bot_token).build() and
\* setup_handlers(app); either may raise
MainSetupBot ==
  /\ pc = "build"
  /\ \/ /\ app' = "handlers"
        /\ pc' = "run_polling"
     \/ /\ pc' = "except"
        /\ UNCHANGED app
  /\ UNCHANGED <<bot_token, database_url, db_attempts, db, constructions,
                 sleeps>>

\* line 74: app.run_polling(...) starts serving, or raises
MainRunPolling ==
  /\ pc = "run_polling"
  /\ \/ /\ app' = "polling"
        /\ pc' = "polling"
     \/ /\ pc' = "except"
        /\ UNCHANGED app
  /\ UNCHANGED <<bot_token, database_url, db_attempts, db, constructions,
                 sleeps>>

\* lines 76-98: any exception of lines 42-74 ends here; a bot with the one
\* minimal handler is built and polled, or that fails too and main raises
MainEmergencyBot ==
  /\ pc = "except"
  /\ \/ /\ app' = "emergency"
        /\ pc' = "emergency"
     \/ /\ pc' = "failed"
        /\ UNCHANGED app
  /\ UNCHANGED <<bot_token, database_url, db_attempts, db, constructions,
                 sleeps>>

\* lines 88-89: error_handler answers a text message
EmergencyReply ==
  /\ pc = "emergency"
  /\ op' = [name |-> "error_handler", out |-> "starting up"]
  /\ UNCHANGED <<cambodia_date, payments, payments_id_seq, advances>>

\* the steps main itself takes
MainStep ==
  \/ MainCheckEnvironment
  \/ MainConnect
  \/ MainSleep
  \/ MainSetupBot
  \/ MainRunPolling
  \/ MainEmergencyBot


\* ------------------------------------------------------------------------
\* Calls in flight.  detector is the module-level CurrencyDetector instance
\* of currency_detector.py; frames[c] holds the local variables of the call
\* that caller c is executing; returned[<<module, text>>] lists the pairs
\* the finished calls of that module on that text have returned.
\* ------------------------------------------------------------------------

NotCalled == "none"

\* CurrencyDetector.__init__: the two pattern lists of the instance
CurrencyDetector_init ==
  [usd_patterns |-> detector_usd_patterns,
   riel_patterns |-> detector_riel_patterns]

\* A variant in which a call uses up the instance's USD pattern list.
self_after_call_consumed(self) == [self EXCEPT !.usd_patterns = <<>>]

\* The methods of CurrencyDetector only read self.usd_patterns and
\* self.riel_patterns: the instance after a call is the instance before.
self_after_call(self) == self

Callers == {1, 2}
Modules == {"currency_extractor", "currency_detector"}
CallTexts == {Ex_50Riel10000, Ex_100usd}

\* calls started per module and text
MaxCalls == 2

NoFrame ==
  [pc |-> "idle", module |-> NotCalled, text |-> <<>>,
   usd_amount |-> 0, riel_amount |-> 0]

CallsIdle ==
  /\ detector = CurrencyDetector_init
  /\ frames = [c \in Callers |-> NoFrame]
  /\ returned = [k \in Modules \X CallTexts |-> <<>>]

InFlight(m, t) ==
  {c \in Callers : frames[c].pc # "idle" /\ frames[c].module = m
                     /\ frames[c].text = t}

CanStart(m, t) ==
  Len(returned[<<m, t>>]) + Cardinality(InFlight(m, t)) < MaxCalls

\* currency_extractor.extract_amounts is entered: usd_amount = 0.0,
\* riel_amount = 0.0
ExtractorBegin(c) ==
  \E t \in CallTexts :
    /\ frames[c].pc = "idle"
    /\ CanStart("currency_extractor", t)
    /\ frames' = [frames EXCEPT ![c] =
                    [pc |-> "usd", module |-> "currency_extractor", text |-> t,
                     usd_amount |-> 0, riel_amount |-> 0]]
    /\ UNCHANGED <<detector, returned, extractVars, ledgerVars, mainVars, files>>

\* the loop over usd_patterns
ExtractorUsd(c) ==
  /\ frames[c].pc = "usd"
  /\ frames[c].module = "currency_extractor"
  /\ frames' = [frames EXCEPT
                  ![c].usd_amount =
                    ScanPatterns(@, usd_patterns, Strip(frames[c].text)),
                  ![c].pc = "riel"]
  /\ UNCHANGED <<detector, returned, extractVars, ledgerVars, mainVars, files>>

\* the loop over riel_patterns
ExtractorRiel(c) ==
  /\ frames[c].pc = "riel"
  /\ frames[c].module = "currency_extractor"
  /\ frames' = [frames EXCEPT
                  ![c].riel_amount =
                    ScanPatterns(@, riel_patterns, Strip(frames[c].text)),
                  ![c].pc = "return"]
  /\ UNCHANGED <<detector, returned, extractVars, ledgerVars, mainVars, files>>

\* currency_detector.extract_amounts -> detector.extract_amounts is
\* entered; an empty text returns at once
DetectorBegin(c) ==
  \E t \in CallTexts :
    /\ frames[c].pc = "idle"
    /\ CanStart("currency_detector", t)
    /\ frames' = [frames EXCEPT ![c] =
                    [pc |-> IF t = <<>> THEN "return" ELSE "usd",
                     module |-> "currency_detector", text |-> t,
                     usd_amount |-> 0, riel_amount |-> 0]]
    /\ UNCHANGED <<detector, returned, extractVars, ledgerVars, mainVars, files>>

\* usd_amounts = self._extract_usd(text); if usd_amounts: max(usd_amounts)
DetectorUsd(c) ==
  /\ frames[c].pc = "usd"
  /\ frames[c].module = "currency_detector"
  /\ LET usd_amounts ==
           CollectPatterns(<<>>, detector.usd_patterns, Strip(frames[c].text))
     IN  frames' = [frames EXCEPT
                      ![c].usd_amount =
                        IF usd_amounts # <<>> THEN SeqMax(usd_amounts) ELSE @,
                      ![c].pc = "riel"]
  /\ detector' = self_after_call(detector)
  /\ UNCHANGED <<returned, extractVars, ledgerVars, mainVars, files>>

\* riel_amounts = self._extract_riel(text); if riel_amounts: max(...)
DetectorRiel(c) ==
  /\ frames[c].pc = "riel"
  /\ frames[c].module = "currency_detector"
  /\ LET riel_amounts ==
           CollectPatterns(<<>>, detector.riel_patterns, Strip(frames[c].text))
     IN  frames' = [frames EXCEPT
                      ![c].riel_amount =
                        IF riel_amounts # <<>> THEN SeqMax(riel_amounts) ELSE @,
                      ![c].pc = "return"]
  /\ detector' = self_after_call(detector)
  /\ UNCHANGED <<returned, extractVars, ledgerVars, mainVars, files>>

\* return usd_amount, riel_amount
CallReturn(c) ==
  /\ frames[c].pc = "return"
  /\ returned' =
       [returned EXCEPT ![<<frames[c].module, frames[c].text>>] =
          Append(@, Return(frames[c].usd_amount, frames[c].riel_amount))]
  /\ frames' = [frames EXCEPT ![c] = NoFrame]
  /\ UNCHANGED <<detector, extractVars, ledgerVars, mainVars, files>>

InitCalls ==
  /\ CallsIdle
  /\ LedgerIdle
  /\ MainPolling
  /\ files = {}
  /\ text = <<>>
  /\ callee = NotCalled
  /\ result = Return(0, 0)

NextCalls ==
  \E c \in Callers :
    \/ ExtractorBegin(c)
    \/ ExtractorUsd(c)
    \/ ExtractorRiel(c)
    \/ DetectorBegin(c)
    \/ DetectorUsd(c)
    \/ DetectorRiel(c)
    \/ CallReturn(c)

SpecCalls == InitCalls /\ [][NextCalls]_vars

\* ------------------------------------------------------------------------
\* The state machine: a text arrives and one of the two extractors is
\* applied to it.
\* ------------------------------------------------------------------------

InitExtract ==
  /\ text \in Texts
  /\ callee = NotCalled
  /\ result = Return(0, 0)
  /\ CallsIdle
  /\ LedgerIdle
  /\ MainPolling
  /\ files = {}

\* bot_handlers.add_payment_command / test_detection call
\* currency_extractor.extract_amounts
ExtractorCall ==
  /\ callee = NotCalled
  /\ callee' = "currency_extractor"
  /\ result' = extract_amounts(text)
  /\ UNCHANGED <<text, callVars, ledgerVars, mainVars, files>>

\* handlers.handle_message calls currency_detector.extract_amounts
DetectorCall ==
  /\ callee = NotCalled
  /\ callee' = "currency_detector"
  /\ result' = detector_extract_amounts(text)
  /\ UNCHANGED <<text, callVars, ledgerVars, mainVars, files>>

NextExtract == ExtractorCall \/ DetectorCall

SpecExtract == InitExtract /\ [][NextExtract]_vars

\* ------------------------------------------------------------------------
\* The ledger specification: commands and queries in any order, while the
\* date moves on.
\* ------------------------------------------------------------------------

Init ==
  /\ LedgerIdle
  /\ CallsIdle
  /\ MainPolling
  /\ files = {}
  /\ text = <<>>
  /\ callee = NotCalled
  /\ result = Return(0, 0)

Next ==
  \/ AddPaymentCommand /\ UNCHANGED <<extractVars, callVars, mainVars, files>>
  \/ GetTotals /\ UNCHANGED <<extractVars, callVars, mainVars, files>>
  \/ ExportPayments /\ UNCHANGED <<extractVars, callVars, mainVars, files>>
  \/ GetStats /\ UNCHANGED <<extractVars, callVars, mainVars, files>>
  \/ ResetTotals /\ UNCHANGED <<extractVars, callVars, mainVars, files>>
  \/ Reconnect /\ UNCHANGED <<extractVars, callVars, mainVars, files>>
  \/ DatePasses /\ UNCHANGED <<extractVars, callVars, mainVars, files>>
  \/ TestDetection /\ UNCHANGED <<extractVars, callVars, mainVars, files>>

Spec == Init /\ [][Next]_vars

\* ------------------------------------------------------------------------
\* The /export handler: payments are added, exports are asked for, and the
\* files of the working directory are followed.
\* ------------------------------------------------------------------------

NextExport ==
  \/ AddPaymentCommand /\ UNCHANGED <<extractVars, callVars, mainVars, files>>
  \/ ExportExcel /\ UNCHANGED <<extractVars, callVars, mainVars>>
  \/ DatePasses /\ UNCHANGED <<extractVars, callVars, mainVars, files>>

SpecExport == Init /\ [][NextExport]_vars

\* ------------------------------------------------------------------------
\* The program from its start: main() runs, and once it polls, the
\* commands are served; in emergency mode only the minimal handler is.
\* ------------------------------------------------------------------------

InitMain ==
  /\ pc = "start"
  /\ bot_token \in BOOLEAN
  /\ database_url \in BOOLEAN
  /\ db_attempts = 0
  /\ db = "None"
  /\ constructions = 0
  /\ sleeps = 0
  /\ app = "none"
  /\ files = {}
  /\ LedgerIdle
  /\ CallsIdle
  /\ text = <<>>
  /\ callee = NotCalled
  /\ result = Return(0, 0)

MainSteps == MainStep /\ UNCHANGED <<extractVars, callVars, ledgerVars, files>>

NextMain ==
  \/ MainSteps
  \/ pc = "polling" /\ Next
  \/ EmergencyReply /\ UNCHANGED <<extractVars, callVars, mainVars, files>>

SpecMain == InitMain /\ [][NextMain]_vars

\* Each step of main is a piece of straight-line code that returns or
\* raises (a connection attempt, time.sleep(2), building the bot), so main
\* does not stay before a step for ever.
SpecMainLive == SpecMain /\ WF_vars(MainSteps)

\* ------------------------------------------------------------------------
\* Notions the properties are stated with
\* ------------------------------------------------------------------------

Called == callee # NotCalled

\* the pattern lists of the module that was called
UsdPatternsOf(c) ==
  IF c = "currency_extractor" THEN usd_patterns ELSE detector_usd_patterns
RielPatternsOf(c) ==
  IF c = "currency_extractor" THEN riel_patterns ELSE detector_riel_patterns

\* the transaction-specific patterns of each list ("ABA transaction
\* formats", "Transaction formats")
UsdTransactionPatternsOf(c) ==
  IF c = "currency_extractor" THEN SubSeq(usd_patterns, 5, 8)
  ELSE SubSeq(detector_usd_patterns, 9, 12)
RielTransactionPatternsOf(c) ==
  IF c = "currency_extractor" THEN SubSeq(riel_patterns, 9, 9)
  ELSE SubSeq(detector_riel_patterns, 9, 11)

\* the value, in hundredths, of a numeral written with optional grouping
\* commas and zero, one or two fraction digits
NumeralValue(n) ==
  LET dots == {i \in 1..Len(n) : n[i] = "."}
      dot  == IF dots = {} THEN Len(n) + 1 ELSE CHOOSE i \in dots : TRUE
      ip   == SelectSeq(SubSeq(n, 1, dot - 1), IsDigit)
      fp   == SubSeq(n, dot + 1, Len(n))
  IN  100 * IntVal(ip) + (IF Len(fp) = 1 THEN 10 * IntVal(fp) ELSE IntVal(fp))

\* number of fraction digits of a numeral
FractionDigits(n) ==
  LET dots == {i \in 1..Len(n) : n[i] = "."}
  IN  IF dots = {} THEN 0 ELSE Len(n) - (CHOOSE i \in dots : TRUE)

\* the values captured in text t by the patterns of a list, as a set
CapturedValues(patterns, t) ==
  UNION {LET ms == FindAll(patterns[i], t)
         IN  {ParseAmount(ms[j]).v : j \in 1..Len(ms)} : i \in 1..Len(patterns)}

PositiveValues(patterns, t) == {v \in CapturedValues(patterns, t) : v > 0}

SetMax(S) == CHOOSE x \in S : \A y \in S : y <= x

\* the largest positive captured value, 0 when there is none
LargestPositive(patterns, t) ==
  LET vs == PositiveValues(patterns, t) IN IF vs = {} THEN 0 ELSE SetMax(vs)

\* A digit stands next to a recognized currency marker: directly, or with
\* white space between them.
Markers ==
  {Dollar, RielSign, W_USD, W_dollar, W_dollar \o W_s, W_KHR, W_riel}

RECURSIVE SkipSpaceBack(_, _)
SkipSpaceBack(t, p) == IF IsSpace(At(t, p)) THEN SkipSpaceBack(t, p - 1) ELSE p

MarkedDigits(t) ==
  \E m \in Markers : \E p \in 1..Len(t) :
    /\ LitAt(FoldSeq(t), p, FoldSeq(m))
    /\ \/ IsDigit(At(t, SkipSpace(t, p + Len(m))))
       \/ IsDigit(At(t, SkipSpaceBack(t, p - 1)))

\* the extract_amounts of module c applied to text t
ExtractBy(c, t) ==
  IF c = "currency_extractor" THEN extract_amounts(t)
  ELSE detector_extract_amounts(t)

\* upper-case and lower-case forms of a letter, other characters unchanged
Letters ==
  <<"a", "A">> :> 0 @@ <<"b", "B">> :> 0 @@ <<"c", "C">> :> 0
    @@ <<"d", "D">> :> 0 @@ <<"e", "E">> :> 0 @@ <<"f", "F">> :> 0
    @@ <<"g", "G">> :> 0 @@ <<"h", "H">> :> 0 @@ <<"i", "I">> :> 0
    @@ <<"j", "J">> :> 0 @@ <<"k", "K">> :> 0 @@ <<"l", "L">> :> 0
    @@ <<"m", "M">> :> 0 @@ <<"n", "N">> :> 0 @@ <<"o", "O">> :> 0
    @@ <<"p", "P">> :> 0 @@ <<"q", "Q">> :> 0 @@ <<"r", "R">> :> 0
    @@ <<"s", "S">> :> 0 @@ <<"t", "T">> :> 0 @@ <<"u", "U">> :> 0
    @@ <<"v", "V">> :> 0 @@ <<"w", "W">> :> 0 @@ <<"x", "X">> :> 0
    @@ <<"y", "Y">> :> 0 @@ <<"z", "Z">> :> 0
LowerChar(c) ==
  IF \E l \in DOMAIN Letters : l[2] = c
  THEN (CHOOSE l \in DOMAIN Letters : l[2] = c)[1] ELSE c
UpperChar(c) ==
  IF \E l \in DOMAIN Letters : l[1] = c
  THEN (CHOOSE l \in DOMAIN Letters : l[1] = c)[2] ELSE c
SwapChar(c) == IF LowerChar(c) # c THEN LowerChar(c) ELSE UpperChar(c)

Lower(t) == [i \in 1..Len(t) |-> LowerChar(t[i])]
Upper(t) == [i \in 1..Len(t) |-> UpperChar(t[i])]
SwapCase(t) == [i \in 1..Len(t) |-> SwapChar(t[i])]

\* the text with its letters in another case: all lower, all upper, and
\* every letter in the opposite case
CaseVariants(t) == {Lower(t), Upper(t), SwapCase(t)} \ {t}

\* the markers of each currency, and their presence anywhere in a text
\* ('dollars' holds 'dollar')
UsdMarkers  == {Dollar, W_USD, W_dollar}
RielMarkers == {RielSign, W_KHR, W_riel}
HasMarker(t, ms) ==
  \E m \in ms : \E p \in 1..Len(t) : LitAt(FoldSeq(t), p, FoldSeq(m))

\* forms that mark their numeral as USD, and as Riel
UsdForms  == UsdGenericForms \cup UsdTransactionForms
RielForms == RielSymbolForms \cup RielWordForms \cup {F_ReceivedKHR}

\* the tokens written one after the other with one space between two
RECURSIVE SpaceJoined(_)
SpaceJoined(tokens) ==
  IF tokens = <<>> THEN <<>>
  ELSE IF Len(tokens) = 1 THEN tokens[1]
  ELSE SpaceJoined(SubSeq(tokens, 1, Len(tokens) - 1)) \o Sp
         \o tokens[Len(tokens)]

\* the pair extract_amounts gives for each argument list of /add
PairOfArgs ==
  [args \in ArgLists \ {<<>>} |-> extract_amounts(SpaceJoined(args))]

\* the records of a chat, as positions in the table
RecordsOf(chat_id) ==
  {i \in 1..Len(payments) : payments[i].chat_id = chat_id}

\* sums of the amounts of a set of records
RECURSIVE UsdOf(_)
UsdOf(I) ==
  IF I = {} THEN 0
  ELSE LET i == CHOOSE j \in I : TRUE
       IN  payments[i].usd_amount + UsdOf(I \ {i})

RECURSIVE RielOf(_)
RielOf(I) ==
  IF I = {} THEN 0
  ELSE LET i == CHOOSE j \in I : TRUE
       IN  payments[i].riel_amount + RielOf(I \ {i})

SumsOf(I) == [usd |-> UsdOf(I), riel |-> RielOf(I)]

\* days from 1 January 2024, a Monday, to date d
RECURSIVE DaysBeforeYear(_)
DaysBeforeYear(y) ==
  IF y <= 2024 THEN 0
  ELSE DaysBeforeYear(y - 1) + (IF IsLeap(y - 1) THEN 366 ELSE 365)

RECURSIVE DaysBeforeMonth(_, _)
DaysBeforeMonth(y, m) ==
  IF m = 1 THEN 0 ELSE DaysBeforeMonth(y, m - 1) + DaysInMonth(y, m - 1)

DayNumber(d) == DaysBeforeYear(d.year) + DaysBeforeMonth(d.year, d.month) + d.day - 1

\* days since the Monday that starts the week of d
DaysIntoWeek(d) == DayNumber(d) % 7

\* the records of a chat dated within the last n days, the current date
\* included as day 0
DatedWithin(chat_id, n) ==
  {i \in RecordsOf(chat_id) :
     DayNumber(cambodia_date) - DayNumber(payments[i].payment_date) \in 0..n}

\* the records of a chat in each reporting period of the current date
DatedToday(chat_id) ==
  {i \in RecordsOf(chat_id) : payments[i].payment_date = cambodia_date}
DatedThisMonth(chat_id) ==
  {i \in RecordsOf(chat_id) :
     /\ payments[i].payment_date.year = cambodia_date.year
     /\ payments[i].payment_date.month = cambodia_date.month}
DatedThisYear(chat_id) ==
  {i \in RecordsOf(chat_id) :
     payments[i].payment_date.year = cambodia_date.year}
DatedThisWeek(chat_id) ==
  {i \in RecordsOf(chat_id) :
     DayNumber(payments[i].payment_date)
       >= DayNumber(cambodia_date) - DaysIntoWeek(cambodia_date)}

\* no record is dated after the current date
NoFutureDate ==
  \A i \in 1..Len(payments) :
    DayNumber(payments[i].payment_date) <= DayNumber(cambodia_date)

\* ------------------------------------------------------------------------
\* Properties
\* ------------------------------------------------------------------------

\* C1: when a transaction-specific form ('$n paid by', 'paid $n',
\* 'Received $n', 'Transfer $n', 'Received n KHR') stands in the text, the
\* amount n it anchors is returned for that currency, even when a larger
\* marked amount of the same currency stands elsewhere in the text;
\* '$272.50 paid by SCB, balance $1000.00' gives usd = 272.50.
C1_TransactionPriority ==
  Called =>
    /\ text = Ex_PaidByBalance => result.usd = 27250
    /\ \A f \in UsdTransactionForms \cup {F_ReceivedKHR} :
       \A n \in FirstNumerals :
       \A g \in SecondForms \ UsdTransactionForms :
       \A m \in SecondNumerals :
         (text = TwoPhrase(f, n, g, m) /\ NumeralValue(n) > 0)
           => IF f = F_ReceivedKHR THEN result.riel = NumeralValue(n)
              ELSE result.usd = NumeralValue(n)

\* C2: the amount returned for a currency is the maximum of the positive
\* values captured by all patterns of that currency (0 when there is none),
\* not their sum and not the first; '$50 and $100' gives usd = 100.00, and
\* '$100', captured by several patterns, gives 100.00.
C2_MaximumOfCandidates ==
  Called =>
    /\ result.usd = LargestPositive(UsdPatternsOf(callee), Strip(text))
    /\ result.riel = LargestPositive(RielPatternsOf(callee), Strip(text))
    /\ text = Ex_50and100 => result.usd = 10000
    /\ text = Ex_100 => result.usd = 10000

C2_Witness ==
  /\ callee = "currency_extractor"
  /\ text = Ex_50and100
  /\ result = Return(10000, 0)

\* C3: for every text, the empty one included, the call returns a
\* well-formed pair of amounts and does not raise; the empty text gives
\* (0, 0).
C3_Total ==
  Called =>
    /\ ~result.raised
    /\ result.usd \in Nat
    /\ result.riel \in Nat
    /\ text = <<>> => result = Return(0, 0)

C3_Witness ==
  /\ callee = "currency_detector"
  /\ text = <<>>
  /\ result = Return(0, 0)

\* C4: for every positive integer n, ungrouped or correctly grouped, the
\* text of the Riel sign followed by n makes
\* currency_extractor.extract_amounts return (0, n), and '$50' followed by
\* the Riel sign and 10000 gives (50, 10000).
C4_RielSymbolForms ==
  callee = "currency_extractor" =>
    /\ \A n \in IntNumerals \cup GroupedNumerals :
         (text = Phrase(F_RielPrefix, n) /\ FractionDigits(n) = 0
            /\ NumeralValue(n) > 0)
           => result = Return(0, NumeralValue(n))
    /\ text = Ex_Riel25000 => result = Return(0, 2500000)
    /\ text = Ex_50Riel10000 => result = Return(5000, 1000000)

\* C5: for every positive amount n written as an ungrouped digit string,
\* optionally with '.' and exactly two digits, each of '$n', 'n$', 'n USD',
\* 'n dollars' and 'USD n' gives usd = n and riel = 0, in both modules.
C5_UsdGenericForms ==
  Called =>
    /\ \A f \in UsdGenericForms : \A n \in IntNumerals \cup FracNumerals :
         (text = Phrase(f, n) /\ FractionDigits(n) \in {0, 2}
            /\ NumeralValue(n) > 0)
           => result = Return(NumeralValue(n), 0)
    /\ text = Ex_12345USD => result = Return(1234500, 0)

\* C6: for every positive integer n written as an ungrouped digit string,
\* each of 'n riel', 'n KHR', 'riel n' and 'KHR n' gives riel = n and
\* usd = 0.
C6_RielWordForms ==
  Called =>
    \A f \in RielWordForms : \A n \in IntNumerals :
      (text = Phrase(f, n) /\ NumeralValue(n) > 0)
        => result = Return(0, NumeralValue(n))

\* C7: for every correctly grouped USD numeral G, in each of the forms
\* '$G', 'G$', 'G USD', 'G dollars' and 'USD G' the usd returned is the
\* value of G with the commas removed.
C7_ThousandsGrouping ==
  Called =>
    \A f \in UsdGenericForms : \A n \in GroupedNumerals :
      text = Phrase(f, n) => result.usd = NumeralValue(n)

\* C8: for a marked USD numeral with zero, one or two fraction digits the
\* usd returned is the numeral's full decimal value, fraction included.
C8_FractionDigits ==
  Called =>
    /\ \A f \in UsdGenericForms : \A n \in IntNumerals \cup FracNumerals :
         text = Phrase(f, n) => result.usd = NumeralValue(n)
    /\ text = Ex_10_5 => result.usd = 1050
    /\ text = Ex_10_50 => result.usd = 1050

\* C9: both components of the result are >= 0; a captured value of zero
\* is never the result while a positive value of the same currency is
\* captured; and a text whose captured values are all zero gives the result
\* of a text with no amount, (0, 0).
C9_NonPositiveDiscarded ==
  Called =>
    LET t  == Strip(text)
        us == CapturedValues(UsdPatternsOf(callee), t)
        rs == CapturedValues(RielPatternsOf(callee), t)
    IN  /\ result.usd >= 0 /\ result.riel >= 0
        /\ (\E v \in us : v > 0) => result.usd > 0
        /\ (\E v \in rs : v > 0) => result.riel > 0
        /\ us \subseteq {0} => result.usd = 0
        /\ rs \subseteq {0} => result.riel = 0

\* '$0 and $500': a zero and a positive value are captured
C9_Witness ==
  /\ callee = "currency_extractor"
  /\ text = TwoPhrase(F_SymPrefix, <<"0">>, F_SymPrefix, <<"5", "0", "0">>)
  /\ 0 \in CapturedValues(usd_patterns, Strip(text))
  /\ result = Return(50000, 0)

\* C10: for every text that is empty, white space only, or in which no
\* digit stands next to a recognized currency marker ($, the Riel sign,
\* USD, dollar(s), KHR, riel), the result is (0, 0).
C10_NoMarkerNoAmount ==
  (Called /\ ~MarkedDigits(text)) => result = Return(0, 0)

\* C11: putting the letters of the currency words and transaction keywords
\* of a text (USD, dollars, KHR, riel, paid, received, transfer) in another
\* case leaves the result of extract_amounts unchanged; '100 USD',
\* '100 usd' and '100 Usd' give identical results.
C11_CaseInsensitive ==
  Called =>
    /\ \A v \in CaseVariants(text) : ExtractBy(callee, v) = result
    /\ text = Ex_100USD =>
         /\ ExtractBy(callee, Ex_100usd) = result
         /\ ExtractBy(callee, Ex_100Usd) = result

\* '100 usd' is read as 100.00 USD, as '100 USD' is
C11_Witness ==
  /\ callee = "currency_detector"
  /\ text = Ex_100usd
  /\ Upper(text) = Ex_100USD
  /\ result = Return(10000, 0)
  /\ ExtractBy(callee, Ex_100USD) = result

\* C12: a text without a USD marker ($, USD, dollar, dollars) gives usd = 0
\* and a text without a Riel marker (the Riel sign, KHR, riel) gives
\* riel = 0; and joining an amount of one currency to a text leaves the
\* other currency's component what it is for the text alone.
C12_CurrencyIndependence ==
  Called =>
    /\ ~HasMarker(text, UsdMarkers) => result.usd = 0
    /\ ~HasMarker(text, RielMarkers) => result.riel = 0
    /\ \A f \in Forms : \A n \in FirstNumerals :
       \A g \in SecondForms : \A m \in SecondNumerals :
         text = TwoPhrase(f, n, g, m) =>
           /\ g \in RielForms =>
                result.usd = ExtractBy(callee, Phrase(f, n)).usd
           /\ g \in UsdForms =>
                result.riel = ExtractBy(callee, Phrase(f, n)).riel
           /\ f \in RielForms =>
                result.usd = ExtractBy(callee, Phrase(g, m)).usd
           /\ f \in UsdForms =>
                result.riel = ExtractBy(callee, Phrase(g, m)).riel

\* C13: a numeral occurrence is a candidate for at most one currency: in a
\* text with a single numeral, the numeral's value is not captured both by
\* a USD pattern and by a Riel pattern, and so at most one component of the
\* result is that value; for the Riel sign followed by '100$', and for
\* 'KHR 100 USD', at most one component is 100.
C13_DisjointCandidates ==
  Called =>
    /\ \A f \in Forms \cup DoubleForms : \A n \in Numerals :
         (text = Phrase(f, n) /\ NumeralValue(n) > 0) =>
           /\ ~ /\ NumeralValue(n)
                      \in CapturedValues(UsdPatternsOf(callee), Strip(text))
                 /\ NumeralValue(n)
                      \in CapturedValues(RielPatternsOf(callee), Strip(text))
           /\ ~(result.usd = NumeralValue(n) /\ result.riel = NumeralValue(n))
    /\ text \in {Ex_Riel100Dollar, Ex_KHR100USD} =>
         ~(result.usd = 10000 /\ result.riel = 10000)

\* C14: the pair a call returns depends on its text only: all calls of a
\* module on one text, however interleaved with other calls, return the
\* same pair ('100 usd' always (100.00, 0)); and no call changes the
\* detector instance the later calls read.
C14_Deterministic ==
  /\ \A k \in DOMAIN returned : \A i \in 1..Len(returned[k]) :
       /\ returned[k][i] = returned[k][1]
       /\ k[2] = Ex_100usd => returned[k][i] = Return(10000, 0)
  /\ detector = CurrencyDetector_init

\* both calls of the detector on '$50 (Riel sign)10000' have returned while
\* a call of the other module on another text is half done
C14_Witness ==
  /\ Len(returned[<<"currency_detector", Ex_50Riel10000>>]) = MaxCalls
  /\ returned[<<"currency_detector", Ex_50Riel10000>>][MaxCalls]
       = Return(5000, 1000000)
  /\ \E c \in Callers :
       /\ frames[c].pc = "riel"
       /\ frames[c].module = "currency_extractor"
       /\ frames[c].text = Ex_100usd

\* C15: when /add appends a record, the record's usd and riel amounts are
\* the pair extract_amounts returns for the argument tokens joined with
\* single spaces, and the record carries the user id and the chat id of
\* the update the command came with.
C15_VerbatimHandOff ==
  (op.name = "add_payment_command" /\ op.out = "added") =>
    LET rec == payments[Len(payments)]
    IN  /\ rec.id = op.payment_id
        /\ rec.usd_amount = PairOfArgs[op.args].usd
        /\ rec.riel_amount = PairOfArgs[op.args].riel
        /\ rec.user_id = op.user_id
        /\ rec.chat_id = op.chat_id

\* '/add $5 4 KHR' by user 102 in chat 1002 has appended (5.00, 4.00) as
\* the second record
C15_Witness ==
  /\ op.name = "add_payment_command"
  /\ op.out = "added"
  /\ op.args = <<<<"$", "5">>, <<"4">>, W_KHR>>
  /\ op.user_id = 102
  /\ Len(payments) = 2
  /\ payments[2].usd_amount = 500
  /\ payments[2].riel_amount = 400
  /\ payments[2].chat_id = 1002

\* C16: get_totals(chat, 'all') returns the sum of the usd amounts and the
\* sum of the riel amounts of all records appended for the chat.
C16_PeriodAll ==
  (op.name = "get_totals" /\ op.period = "all") =>
    op.out = SumsOf(RecordsOf(op.chat_id))

C19_AppendOnly ==
  [][ LET added == /\ op'.name = "add_payment_command"
                   /\ op'.out = "added"
                   /\ op' # op
      IN  IF added
          THEN /\ Len(payments') = Len(payments) + 1
               /\ SubSeq(payments', 1, Len(payments)) = payments
               /\ \A i \in 1..Len(payments) :
                    payments[i].id # payments'[Len(payments')].id
               /\ payments'[Len(payments')].id = op'.payment_id
          ELSE payments' = payments ]_vars

\* two records with distinct ids are there after a reset_totals
C19_Witness ==
  /\ op.name = "reset_totals"
  /\ Len(payments) = 2
  /\ payments[1].id # payments[2].id

C20_WitnessNone ==
  /\ op.name = "export_to_excel"
  /\ op.period = "week"
  /\ RecordsOf(op.chat_id) # {}
  /\ op.out = None

\* the rows of one chat, in the order of the table
OfChat(table, chat_id) == SelectSeq(table, LAMBDA r : r.chat_id = chat_id)

\* what the three queries give for a chat on a table at a date
QueriesOf(table, today, chat_id) ==
  [totals |-> [p \in Periods |->
                 PaymentDatabase_get_totals(table, today, chat_id, p)],
   stats  |-> get_stats(table, today, chat_id),
   export |-> [p \in {"week", "month", "year", "all"} |->
                 export_to_excel(table, today, chat_id, p)]]

\* C21: /add without arguments only replies with the usage text; /add with
\* arguments appends a record if and only if extract_amounts on the joined
\* text gives usd > 0 or riel > 0, and replies 'No payment amounts
\* detected' when both are 0.
C21_RecordIffDetected ==
  op.name = "add_payment_command" =>
    IF op.args = <<>> THEN op.out = "usage"
    ELSE IF PairOfArgs[op.args].usd > 0 \/ PairOfArgs[op.args].riel > 0
         THEN op.out = "added"
         ELSE op.out = "no amounts"

\* C22: main constructs PaymentDatabase at most 3 times and not again after
\* a construction succeeded; before each further attempt it has slept once
\* for every failed one; the command handlers are registered and polled
\* only with a connected database; and the retry loop is always left, with
\* a connected database or by the raise after the third failure.
C22_StartupRetry ==
  /\ [](/\ constructions <= 3
        /\ db = "connected" => constructions = db_attempts + 1
        /\ db = "None" => constructions = db_attempts
        /\ pc = "construct" => sleeps = db_attempts
        /\ app \in {"handlers", "polling"} => db = "connected"
        /\ (pc = "except" /\ db = "None") => db_attempts = 3)
  /\ [][db = "connected" => constructions' = constructions]_vars
  /\ (pc = "construct") ~> (\/ pc = "build" /\ db = "connected"
                            \/ pc = "except" /\ db_attempts = 3)

\* the third attempt succeeded after two failures and two sleeps, and the
\* command handlers are served
C22_Witness ==
  /\ pc = "polling"
  /\ constructions = 3
  /\ db_attempts = 2
  /\ sleeps = 2
  /\ db = "connected"
  /\ app = "polling"

\* C23: the emergency bot is started only when all attempts to connect to
\* the database failed; it is never started once a connection succeeded.
C23_EmergencyOnlyWithoutDatabase ==
  app = "emergency" => (db = "None" /\ db_attempts = max_attempts)

\* C24: when /add has appended a record, each of today's totals shown in
\* the confirmation is at least the amount just added in that currency.
C24_ConfirmationIncludesPayment ==
  (op.name = "add_payment_command" /\ op.out = "added") =>
    /\ op.current.usd >= op.usd_amount
    /\ op.current.riel >= op.riel_amount

\* C25: when the /export handler has finished, the file written for the
\* request is not on disk any more.
C25_ExportFileCleanup ==
  op.name = "export_excel" => op.filename \notin files

\* C26: what get_totals, get_stats and the export give for a chat is what
\* they give on the rows of that chat alone, and a record appended in one
\* chat changes none of them for any other chat.
C26_ChatIsolation ==
  [][ /\ op'.name = "get_totals" =>
           op'.out = PaymentDatabase_get_totals(
                       OfChat(payments', op'.chat_id), cambodia_date',
                       op'.chat_id, op'.period)
      /\ op'.name = "get_stats" =>
           op'.out = get_stats(OfChat(payments', op'.chat_id),
                               cambodia_date', op'.chat_id)
      /\ op'.name = "export_to_excel" =>
           op'.out = export_to_excel(OfChat(payments', op'.chat_id),
                                     cambodia_date', op'.chat_id, op'.period)
      /\ (op'.name = "add_payment_command" /\ op' # op) =>
           \A chat_id \in Chats \ {op'.chat_id} :
             QueriesOf(payments', cambodia_date', chat_id)
               = QueriesOf(payments, cambodia_date', chat_id) ]_vars

\* the statistics of chat 1001 count its one record while chat 1002 has a
\* record too
C26_Witness ==
  /\ op.name = "get_stats"
  /\ op.chat_id = 1001
  /\ op.out.total_payments = 1
  /\ Cardinality(RecordsOf(1001)) = 1
  /\ Cardinality(RecordsOf(1002)) = 1

\* C27: /test leaves the table as it is and replies with what
\* extract_amounts gives; /add with the same arguments appends a record
\* exactly when /test reports a successful detection, and the record holds
\* the pair /test shows.
C27_TestAgreesWithAdd ==
  [][ /\ (op'.name = "test_detection" /\ op' # op) =>
           /\ payments' = payments
           /\ op'.out = test_detection(op'.args).out
           /\ op'.args # <<>> =>
                /\ op'.usd_amount = PairOfArgs[op'.args].usd
                /\ op'.riel_amount = PairOfArgs[op'.args].riel
      /\ (op'.name = "add_payment_command" /\ op' # op /\ op'.args # <<>>) =>
           /\ op'.out = "added" <=> test_detection(op'.args).out = "successful"
           /\ op'.out = "added" =>
                /\ payments'[Len(payments')].usd_amount
                     = test_detection(op'.args).usd_amount
                /\ payments'[Len(payments')].riel_amount
                     = test_detection(op'.args).riel_amount ]_vars

====
